---------------------------- MODULE Spec2Model ----------------------------
(***************************************************************************)
(* A model of ci-agent: the prompt builder (call_builder.build_call), the  *)
(* Streamlit pipeline (streamlit_app.py) and the Google adapter's model    *)
(* selection (google_adapter.generate_from_prompt).                        *)
(*                                                                         *)
(* Python values are represented as follows.                               *)
(*   - Optional values: None is <<>>, a present value v is <<v>>.          *)
(*   - A Python str that may hold line breaks is a Text: the non-empty     *)
(*     sequence of its lines, so "a\nb" is <<"a", "b">> and "" is <<"">>.  *)
(*     Names, URLs and the other atoms hold no line break.                 *)
(*   - A Python list is a sequence.                                        *)
(***************************************************************************)
EXTENDS Integers, Sequences, FiniteSets, TLC

VARIABLES
    args,           \* SpecBuild: the arguments of one call of build_call
    result,         \* SpecBuild: None before the call, Some(outcome) after it
    environ,        \* Spec: os.environ, which variables are set
    session_state,  \* Spec: st.session_state, a function on the keys it holds
    run,            \* Spec: what the latest run of the script did and showed
    adapter,        \* SpecGoogle: what one call of generate_from_prompt meets
    selection       \* SpecGoogle: None before the call, Some(outcome) after it

vars == <<args, result, environ, session_state, run, adapter, selection>>

---------------------------------------------------------------------------
(* Python values *)

None == <<>>

Some(v) == <<v>>

Val(x) == x[1]

\* Python truthiness of `str | None`: None and "" are falsy.
TruthyStr(x) == x # None /\ Val(x) # ""

\* Python truthiness of `list | None`: None and [] are falsy.
TruthyList(x) == x # None /\ Val(x) # <<>>

\* f"{x}" of a `str | None`: None renders as the word None.
FormatOpt(x) == IF x = None THEN "None" ELSE Val(x)

\* a + b on str
Cat(a, b) == SubSeq(a, 1, Len(a) - 1) \o <<a[Len(a)] \o b[1]>> \o Tail(b)

RECURSIVE Join(_, _)
\* sep.join(parts) on str; parts is a list of Text
Join(sep, parts) ==
    IF parts = <<>> THEN <<"">>
    ELSE IF Len(parts) = 1 THEN parts[1]
    ELSE Cat(Cat(parts[1], sep), Join(sep, Tail(parts)))

\* a list of atoms as a list of Text
Atoms(list) == [i \in 1..Len(list) |-> <<list[i]>>]

\* the two ways a call ends
Return(v) == [raised |-> FALSE, value |-> v]

Raise(msg) == [raised |-> TRUE, value |-> <<msg>>]

---------------------------------------------------------------------------
(* call_builder.build_call *)

\* the `constraints` list, lines 24-32
Constraints(kw) ==
    LET base == << <<"Format: " \o kw.fmt>>,
                   <<"Length: " \o kw.length_hint>>,
                   <<"Tone: " \o kw.tone>>,
                   <<"Assumptions allowed: " \o (IF kw.assumptions_ok THEN "yes" ELSE "no")>> >>
        url_list == Cat(<<"", "  - ">>, Join(<<"", "  - ">>, Atoms(Val(kw.urls))))
    IN  IF TruthyList(kw.urls)
        THEN Append(base, Cat(<<"URLs to research: ">>, url_list))
        ELSE base

\* `header`, line 33
Header(kw) ==
    Cat(Cat(<<"Constraints:", "- ">>, Join(<<"", "- ">>, Constraints(kw))), <<"", "", "">>)

\* `entities_list`, line 36: the entities list, else the single entity, else None
EntitiesList(kw) ==
    IF TruthyList(kw.entities) THEN kw.entities
    ELSE IF TruthyStr(kw.entity) THEN Some(<<Val(kw.entity)>>)
    ELSE None

\* lines 38-42: CI_section and CI_summary interpolate entity unchecked
EntityUnchecked(cmd, header, kw) ==
    Return(Cat(header, <<cmd \o "(" \o FormatOpt(kw.entity) \o ")">>))

\* agent.py's rule, lines 128-130: exactly two entities, no baseline
CompareRequiresTwo(header, entities_list) ==
    IF ~TruthyList(entities_list) \/ Len(Val(entities_list)) # 2
    THEN Raise("CI_compare requires 2 entities.")
    ELSE Return(Cat(header, <<"CI_compare(" \o Val(entities_list)[1] \o ", "
                                \o Val(entities_list)[2] \o ")">>))

\* lines 44-51
Compare(header, entities_list) ==
    IF ~TruthyList(entities_list) \/ Len(Val(entities_list)) < 1
    THEN Raise("CI_compare requires at least 1 entity (e.g. 'A' or 'A, B').")
    ELSE IF Len(Val(entities_list)) = 1
    THEN Return(Cat(header, <<"CI_compare(" \o Val(entities_list)[1] \o ", " \o "Market" \o ")">>))
    ELSE Return(Cat(header, <<"CI_compare(" \o Val(entities_list)[1] \o ", "
                                \o Val(entities_list)[2] \o ")">>))

\* agent.py's rule, lines 131-133: at least two entities
LandscapeRequiresTwo(header, entities_list) ==
    IF ~TruthyList(entities_list) \/ Len(Val(entities_list)) < 2
    THEN Raise("CI_landscape requires at least 2 entities.")
    ELSE Return(Cat(header, Cat(Cat(<<"CI_landscape(">>,
                                    Join(<<", ">>, Atoms(Val(entities_list)))), <<")">>)))

\* lines 53-57
Landscape(header, entities_list) ==
    IF ~TruthyList(entities_list) \/ Len(Val(entities_list)) < 1
    THEN Raise("CI_landscape requires at least 1 entity (e.g. 'A' or 'A, B, C').")
    ELSE Return(Cat(header, Cat(Cat(<<"CI_landscape(">>,
                                    Join(<<", ">>, Atoms(Val(entities_list)))), <<")">>)))

\* the two groups in the wrong order
MatrixCriteriaFirst(header, entities_list, criteria) ==
    IF ~TruthyList(entities_list) \/ ~TruthyList(criteria)
    THEN Raise("CI_matrix requires entities (>=1) and criteria (>=1). Provide comma-separated values.")
    ELSE Return(Cat(header,
                    Cat(Cat(Cat(Cat(<<"CI_matrix(">>, Join(<<", ">>, Atoms(Val(criteria)))),
                                <<", ">>),
                            Join(<<", ">>, Atoms(Val(entities_list)))),
                        <<")">>)))

\* lines 59-65
Matrix(header, entities_list, criteria) ==
    IF ~TruthyList(entities_list) \/ ~TruthyList(criteria)
    THEN Raise("CI_matrix requires entities (>=1) and criteria (>=1). Provide comma-separated values.")
    ELSE Return(Cat(header,
                    Cat(Cat(Cat(Cat(<<"CI_matrix(">>, Join(<<", ">>, Atoms(Val(entities_list)))),
                                <<", ">>),
                            Join(<<", ">>, Atoms(Val(criteria)))),
                        <<")">>)))

\* lines 67-68: CI_signals interpolates topic unchecked
Signals(header, kw) ==
    Return(Cat(header, <<"CI_signals(" \o FormatOpt(kw.topic) \o ")">>))

\* lines 70-78: CI_playbook and CI_price_band check entity
EntityChecked(cmd, header, kw) ==
    IF ~TruthyStr(kw.entity)
    THEN Raise(cmd \o " requires an entity (single name).")
    ELSE Return(Cat(header, <<cmd \o "(" \o Val(kw.entity) \o ")">>))

\* build_call(cmd, *, entities, entity, criteria, topic, urls, fmt, length_hint,
\* tone, assumptions_ok); kw is the record of the keyword arguments
build_call(cmd, kw) ==
    LET header == Header(kw)
        entities_list == EntitiesList(kw)
    IN  CASE cmd \in {"CI_section", "CI_summary"} -> EntityUnchecked(cmd, header, kw)
          [] cmd = "CI_compare" -> Compare(header, entities_list)
          [] cmd = "CI_landscape" -> Landscape(header, entities_list)
          [] cmd = "CI_matrix" -> Matrix(header, entities_list, kw.criteria)
          [] cmd = "CI_signals" -> Signals(header, kw)
          [] cmd \in {"CI_playbook", "CI_price_band"} -> EntityChecked(cmd, header, kw)
          [] OTHER -> Raise("Unknown cmd: " \o cmd)

---------------------------------------------------------------------------
(* SpecBuild: build_call as a pure function over bounded arguments *)

MaxEntities == 3
MaxCriteria == 2
MaxUrls == 4

Commands == {"CI_section", "CI_summary", "CI_compare", "CI_landscape",
             "CI_matrix", "CI_signals", "CI_playbook", "CI_price_band"}

Formats == {"markdown", "json", "text"}
Tones == {"analyst", "neutral", "exec"}
Lengths == {"short", "standard", "extended"}

EntityNames == {"Acme", "Beta"}
CriterionNames == {"Cost", "Speed"}
TopicNames == {"AI"}
UrlNames == {"https://a.example", "https://b.example"}

SeqsUpTo(S, n) == UNION {[1..k -> S] : k \in 0..n}

OptLists(S, n) == {None} \cup {Some(l) : l \in SeqsUpTo(S, n)}

OptStrs(S) == {None, Some("")} \cup {Some(s) : s \in S}

\* the defaults of build_call's signature, lines 14-22
DefaultKw ==
    [entities |-> None, entity |-> None, criteria |-> None, topic |-> None,
     urls |-> None, fmt |-> "markdown", length_hint |-> "standard",
     tone |-> "analyst", assumptions_ok |-> TRUE]

\* every body argument, under the default constraints
BodyCases ==
    {[cmd |-> c,
      kw |-> [DefaultKw EXCEPT !.entities = es, !.entity = e, !.criteria = cr, !.topic = t]] :
        c \in Commands \cup {"CI_unknown"},
        es \in OptLists(EntityNames, MaxEntities),
        e \in OptStrs({"Acme"}),
        cr \in OptLists(CriterionNames, MaxCriteria),
        t \in OptStrs(TopicNames)}

\* every constraint argument, with body arguments every command accepts
HeaderCases ==
    {[cmd |-> c,
      kw |-> [entities |-> Some(<<"Acme", "Beta">>), entity |-> Some("Acme"),
              criteria |-> Some(<<"Cost">>), topic |-> Some("AI"),
              urls |-> u, fmt |-> f, length_hint |-> l, tone |-> t,
              assumptions_ok |-> a]] :
        c \in Commands,
        u \in OptLists(UrlNames, MaxUrls),
        f \in Formats, l \in Lengths, t \in Tones, a \in BOOLEAN}

\* the Streamlit variables, idle in SpecBuild
AppIdle ==
    /\ environ = [GOOGLE_API_KEY |-> FALSE]
    /\ session_state = <<>>
    /\ run = <<>>

\* the adapter's variables, idle outside SpecGoogle
AdapterIdle ==
    /\ adapter = <<>>
    /\ selection = None

InitBuild ==
    /\ args \in BodyCases \cup HeaderCases
    /\ result = None
    /\ AppIdle
    /\ AdapterIdle

Build ==
    /\ result = None
    /\ result' = Some(build_call(args.cmd, args.kw))
    /\ UNCHANGED <<args, environ, session_state, run, adapter, selection>>

NextBuild == Build

SpecBuild == InitBuild /\ [][NextBuild]_vars

---------------------------------------------------------------------------
(* What the claims about build_call speak of *)

Built == result # None

Out == Val(result)

\* the text after the last line break of a returned instruction
BodyOf(out) == out.value[Len(out.value)]

RECURSIVE CommaList(_)
\* the items of a non-empty list, separated by a comma and a space
CommaList(list) ==
    IF Len(list) = 1 THEN list[1] ELSE list[1] \o ", " \o CommaList(Tail(list))

\* the entities a call supplies: its entities list or, without one, its
\* single entity
Supplied(kw) ==
    IF kw.entities # None /\ Val(kw.entities) # <<>> THEN Val(kw.entities)
    ELSE IF kw.entity # None /\ Val(kw.entity) # "" THEN <<Val(kw.entity)>>
    ELSE <<>>

Absent(opt) == opt = None \/ Val(opt) = ""

\* C2: build_call raises whenever the required scalar argument (entity for
\* CI_section, CI_summary, CI_playbook, CI_price_band; topic for CI_signals)
\* is None or empty.
C2_RequiredScalarRaises ==
    Built =>
        /\ (args.cmd \in {"CI_section", "CI_summary", "CI_playbook", "CI_price_band"}
            /\ Absent(args.kw.entity)) => Out.raised
        /\ (args.cmd = "CI_signals" /\ Absent(args.kw.topic)) => Out.raised

\* C3: CI_compare raises when no entity is supplied; one entity X gives the
\* body CI_compare(X, Market); the two entities [A, B] give CI_compare(A, B).
C3_CompareBody ==
    (Built /\ args.cmd = "CI_compare") =>
        LET E == Supplied(args.kw)
        IN  /\ E = <<>> => Out.raised
            /\ Len(E) = 1 =>
                   ~Out.raised /\ BodyOf(Out) = "CI_compare(" \o E[1] \o ", Market)"
            /\ Len(E) = 2 =>
                   ~Out.raised /\ BodyOf(Out) = "CI_compare(" \o E[1] \o ", " \o E[2] \o ")"

C3_Witness ==
    /\ Built /\ args.cmd = "CI_compare"
    /\ args.kw.entities = Some(<<"Acme">>)
    /\ ~Out.raised /\ BodyOf(Out) = "CI_compare(Acme, Market)"

\* C4 as claimed: CI_landscape raises for every call whose entities list is
\* absent or empty, and otherwise returns CI_landscape(e1, e2, ...).
C4_LandscapeRaisesWithoutList ==
    (Built /\ args.cmd = "CI_landscape") =>
        IF args.kw.entities = None \/ Val(args.kw.entities) = <<>>
        THEN Out.raised
        ELSE ~Out.raised
             /\ BodyOf(Out) = "CI_landscape(" \o CommaList(Val(args.kw.entities)) \o ")"

\* C4 amended: CI_landscape raises exactly when the entities list is absent
\* or empty and the single entity is absent or empty too; an entity X without
\* a list gives CI_landscape(X); a non-empty list E gives CI_landscape(e1,
\* e2, ...), every element in its given order, duplicates included.
C4_LandscapeBody ==
    (Built /\ args.cmd = "CI_landscape") =>
        LET noList == args.kw.entities = None \/ Val(args.kw.entities) = <<>>
        IN  /\ Out.raised <=> (noList /\ Absent(args.kw.entity))
            /\ (noList /\ ~Absent(args.kw.entity)) =>
                   BodyOf(Out) = "CI_landscape(" \o Val(args.kw.entity) \o ")"
            /\ ~noList =>
                   BodyOf(Out) = "CI_landscape(" \o CommaList(Val(args.kw.entities)) \o ")"

C4_Witness ==
    /\ Built /\ args.cmd = "CI_landscape"
    /\ args.kw.entities = Some(<<"Beta", "Acme", "Beta">>)
    /\ ~Out.raised /\ BodyOf(Out) = "CI_landscape(Beta, Acme, Beta)"

\* C5: CI_matrix raises exactly when no entity is supplied or no criterion
\* is, and otherwise returns CI_matrix(<entities in order>, <criteria in
\* order>): the entities, then the criteria, comma-joined.
C5_MatrixBody ==
    (Built /\ args.cmd = "CI_matrix") =>
        LET E == Supplied(args.kw)
            noCriteria == args.kw.criteria = None \/ Val(args.kw.criteria) = <<>>
        IN  IF E = <<>> \/ noCriteria
            THEN Out.raised
            ELSE ~Out.raised
                 /\ BodyOf(Out) = "CI_matrix(" \o CommaList(E \o Val(args.kw.criteria)) \o ")"

C5_Witness ==
    /\ Built /\ args.cmd = "CI_matrix"
    /\ args.kw.entities = Some(<<"Acme", "Beta">>)
    /\ args.kw.criteria = Some(<<"Cost", "Speed">>)
    /\ ~Out.raised /\ BodyOf(Out) = "CI_matrix(Acme, Beta, Cost, Speed)"

\* the layout C6 states, line by line
LayoutLines(kw) ==
    <<"Constraints:",
      "- Format: " \o kw.fmt,
      "- Length: " \o kw.length_hint,
      "- Tone: " \o kw.tone,
      "- Assumptions allowed: " \o (IF kw.assumptions_ok THEN "yes" ELSE "no")>>
    \o (IF kw.urls = None \/ Val(kw.urls) = <<>> THEN <<>>
        ELSE <<"- URLs to research:">>
             \o [i \in 1..Len(Val(kw.urls)) |-> "  - " \o Val(kw.urls)[i]])

\* C6: every returned string is the header, one blank line and the body; the
\* header is Constraints:, Format, Length, Tone, Assumptions allowed, then
\* (only for non-empty urls) the line "- URLs to research:" and one
\* "  - <url>" line per URL, byte for byte.
C6_HeaderLayout ==
    (Built /\ ~Out.raised) =>
        Out.value = LayoutLines(args.kw) \o <<"", BodyOf(Out)>>

---------------------------------------------------------------------------
(* agent.build_call, the builder cli.py calls, beside call_builder.build_call *)

\* agent.py lines 117-123: `constraints` and `header`; this builder takes no
\* urls
AgentHeader(kw) ==
    LET constraints == << <<"Format: " \o kw.fmt>>,
                          <<"Length: " \o kw.length_hint>>,
                          <<"Tone: " \o kw.tone>>,
                          <<"Assumptions allowed: "
                              \o (IF kw.assumptions_ok THEN "yes" ELSE "no")>> >>
    IN  Cat(Cat(<<"Constraints:", "- ">>, Join(<<"", "- ">>, constraints)), <<"", "", "">>)

\* a failed `assert`
AssertionError == Raise("AssertionError")

\* agent.py lines 105-143, with the assert statements in force (the
\* interpreter's default mode). entity and topic are interpolated unchecked
\* for every command that takes them; entities is used as given, with no
\* fallback to entity.
agent_build_call(cmd, kw) ==
    LET header == AgentHeader(kw)
        entities == kw.entities
        criteria == kw.criteria
    IN  CASE cmd \in {"CI_section", "CI_summary", "CI_playbook", "CI_price_band"} ->
                 Return(Cat(header, <<cmd \o "(" \o FormatOpt(kw.entity) \o ")">>))
          [] cmd = "CI_compare" ->
                 IF ~(TruthyList(entities) /\ Len(Val(entities)) = 2) THEN AssertionError
                 ELSE Return(Cat(header, <<"CI_compare(" \o Val(entities)[1] \o ", "
                                             \o Val(entities)[2] \o ")">>))
          [] cmd = "CI_landscape" ->
                 IF ~(TruthyList(entities) /\ Len(Val(entities)) >= 2) THEN AssertionError
                 ELSE Return(Cat(header, Cat(Cat(<<"CI_landscape(">>,
                                                 Join(<<", ">>, Atoms(Val(entities)))),
                                             <<")">>)))
          [] cmd = "CI_matrix" ->
                 IF ~(TruthyList(entities) /\ TruthyList(criteria)) THEN AssertionError
                 ELSE Return(Cat(header,
                                 Cat(Cat(Cat(Cat(<<"CI_matrix(">>,
                                                 Join(<<", ">>, Atoms(Val(entities)))),
                                             <<", ">>),
                                         Join(<<", ">>, Atoms(Val(criteria)))),
                                     <<")">>)))
          [] cmd = "CI_signals" ->
                 Return(Cat(header, <<"CI_signals(" \o FormatOpt(kw.topic) \o ")">>))
          [] OTHER -> Raise("Unknown cmd: " \o cmd)

---------------------------------------------------------------------------
(* SpecBuilders: both builders on the same arguments, none of them urls *)

\* the argument sets of SpecBuild that pass no urls
NoUrlCases == {c \in BodyCases \cup HeaderCases : c.kw.urls = None}

InitBuilders ==
    /\ args \in NoUrlCases
    /\ result = None
    /\ AppIdle
    /\ AdapterIdle

\* call_builder.build_call(cmd, **kw) and agent.build_call(cmd, **kw), urls
\* left out of both calls
BuildBoth ==
    /\ result = None
    /\ result' = Some([call_builder |-> build_call(args.cmd, args.kw),
                       agent |-> agent_build_call(args.cmd, args.kw)])
    /\ UNCHANGED <<args, environ, session_state, run, adapter, selection>>

NextBuilders == BuildBoth

SpecBuilders == InitBuilders /\ [][NextBuilders]_vars

\* C12: on every command and every argument set without urls, the two
\* builders either return the identical instruction or both fail.
C12_SameBuilder ==
    result # None =>
        LET web == Val(result).call_builder
            cli == Val(result).agent
        IN  /\ web.raised <=> cli.raised
            /\ ~web.raised => web.value = cli.value

---------------------------------------------------------------------------
(* streamlit_app.py: one run of the script per user interaction *)

\* a dict with key k set to v
Put(d, k, v) == [x \in DOMAIN d \cup {k} |-> IF x = k THEN v ELSE d[x]]

\* x.strip() on the fields the model draws: a field is a name, a name with a
\* blank before it, or blanks only
Strip(x) ==
    CASE x = " " -> ""
      [] x = " Beta" -> "Beta"
      [] x = " https://b.example" -> "https://b.example"
      [] OTHER -> x

\* _split_csv, lines 127-130. A text is the sequence of its comma-separated
\* fields; the empty text "" is <<>>.
split_csv(s) ==
    IF s = None \/ Val(s) = <<>> THEN None
    ELSE Some(SelectSeq([i \in 1..Len(Val(s)) |-> Strip(Val(s)[i])], LAMBDA x : x # ""))

UrlLimit == 3

TruncationWarning == "Limited to first 3 URLs."

NoUrlsWarning ==
    "No research URLs provided. For more accurate and factual results, consider adding specific URLs to research."

\* the cap that is no cap
KeepAllUrls(urls) == [urls |-> urls, warnings |-> <<>>]

\* lines 138-141: limit to max 3 URLs
LimitUrls(urls) ==
    IF TruthyList(urls) /\ Len(Val(urls)) > UrlLimit
    THEN [urls |-> Some(SubSeq(Val(urls), 1, UrlLimit)), warnings |-> <<TruncationWarning>>]
    ELSE [urls |-> urls, warnings |-> <<>>]

\* _build_user_input, lines 133-160, on the widget values w: the outcome of
\* build_call and the warnings shown before it
build_user_input(w) ==
    LET entities == IF TruthyList(w.entities_raw) THEN split_csv(w.entities_raw) ELSE None
        criteria == IF TruthyList(w.criteria_raw) THEN split_csv(w.criteria_raw) ELSE None
        urls0 == IF TruthyList(w.urls_raw) THEN split_csv(w.urls_raw) ELSE None
        limited == LimitUrls(urls0)
        urls == limited.urls
        warnings == limited.warnings
                    \o (IF ~TruthyList(urls) THEN <<NoUrlsWarning>> ELSE <<>>)
    IN  [outcome |-> build_call(w.cmd,
                                [entities |-> entities, entity |-> w.entity,
                                 criteria |-> criteria, topic |-> w.topic, urls |-> urls,
                                 fmt |-> w.fmt, length_hint |-> w.length_hint,
                                 tone |-> w.tone, assumptions_ok |-> w.assumptions_ok]),
         warnings |-> warnings]

\* what a backend does with one request, decided outside the program: whether
\* the guardrail agent classifies the input as a competitive-intelligence
\* request, and the text generation returns (None: the call fails)
Oracles(replies) == [is_ci : BOOLEAN, reply : {None} \cup {Some(t) : t \in replies}]

\* one invocation of a backend by _run_agent_sync: the backend, the prompt it
\* was given, the verdict of the guardrail agent on that prompt, and whether
\* the backend generated a reply to it
Invocation(backend, user_input, o, generated) ==
    [backend |-> backend, prompt |-> user_input, is_ci |-> o.is_ci, generated |-> generated]

\* agent.py lines 93-96: the verdict of guardrail_agent as a tripwire
input_guardrail(is_ci) == [output_info |-> is_ci, tripwire_triggered |-> ~is_ci]

\* lines 183-196: Runner.run(ci_agent, user_input).final_output. ci_agent
\* carries input_guardrail (agent.py lines 98-103): a triggered tripwire makes
\* the run raise instead of generating; every exception is wrapped.
AgentsPath(user_input, ss, o) ==
    [ss |-> Put(ss, "ci_agent_key_source", "OPENAI"),
     calls |-> <<Invocation("agents", user_input, o,
                            ~input_guardrail(o.is_ci).tripwire_triggered /\ o.reply # None)>>,
     outcome |-> IF input_guardrail(o.is_ci).tripwire_triggered
                 THEN Raise("Agents/OpenAI path error: guardrail tripwire")
                 ELSE IF o.reply = None THEN Raise("Agents/OpenAI path error")
                 ELSE Return(Val(o.reply))]

\* a Google failure answered by the other backend
GooglePathWithFallback(user_input, ss, o) ==
    IF o.reply = None
    THEN [AgentsPath(user_input, ss, o) EXCEPT
            !.calls = <<Invocation("google", user_input, o, FALSE)>> \o @]
    ELSE [ss |-> Put(ss, "ci_agent_key_source", "GOOGLE"),
          calls |-> <<Invocation("google", user_input, o, TRUE)>>,
          outcome |-> Return(Val(o.reply))]

\* lines 171-181: generate_from_prompt(user_input), its exceptions wrapped;
\* no guardrail runs on this path
GooglePath(user_input, ss, o) ==
    [ss |-> Put(ss, "ci_agent_key_source", "GOOGLE"),
     calls |-> <<Invocation("google", user_input, o, o.reply # None)>>,
     outcome |-> IF o.reply = None THEN Raise("Google adapter error")
                 ELSE Return(Val(o.reply))]

\* lines 166-169: the toggle held in the session and the key read by this run
\* of the script (st.session_state.get does not raise in a running session,
\* so the except branch is left out)
UseGoogle(ss, key) == ("use_google" \in DOMAIN ss /\ ss["use_google"]) /\ key

\* _run_agent_sync, lines 163-196
run_agent_sync(user_input, ss, key, o) ==
    IF UseGoogle(ss, key) THEN GooglePath(user_input, ss, o)
    ELSE AgentsPath(user_input, ss, o)

\* json.loads succeeds on the replies that are JSON
JsonTexts == {"{\"rating\": 4}"}

\* json.loads left unguarded: text that does not parse ends the run of the
\* script with nothing shown
RenderWithoutFallback(ss, fmt) ==
    IF "last_output" \notin DOMAIN ss THEN None
    ELSE LET out_text == ss["last_output"]
         IN  IF fmt = "json" /\ out_text \notin JsonTexts THEN None
             ELSE Some([text |-> out_text,
                        widget |-> IF fmt = "json" THEN "json"
                                   ELSE IF fmt = "markdown" THEN "markdown" ELSE "code",
                        warning |-> FALSE])

\* lines 220-233: the stored output as shown
Render(ss, fmt) ==
    IF "last_output" \notin DOMAIN ss THEN None
    ELSE LET out_text == ss["last_output"]
         IN  Some([text |-> out_text,
                   widget |-> IF fmt = "json"
                              THEN (IF out_text \in JsonTexts THEN "json" ELSE "code")
                              ELSE IF fmt = "markdown" THEN "markdown" ELSE "code",
                   warning |-> fmt = "json" /\ out_text \notin JsonTexts])

\* lines 99-114: the Google toggle is offered only when the key is set
Sidebar(ss, w, key) ==
    Put(ss, "use_google", IF key THEN w.use_google ELSE FALSE)

\* a run of the script that did nothing yet; fmt is the Format selectbox as
\* this run read it (line 43, markdown by default), output is what
\* _run_agent_sync returned to this run (line 215)
Blank(button) ==
    [button |-> button, fmt |-> "markdown", urls_raw |-> <<>>, build_raised |-> FALSE,
     warnings |-> <<>>, errors |-> <<>>, prompt |-> None, dispatched |-> FALSE,
     calls |-> <<>>, output |-> None, shown |-> None]

\* line 213 on a Run click: the dispatch happens when the session holds a
\* prompt
Dispatch(ss, key, o) ==
    IF "last_prompt" \in DOMAIN ss
    THEN run_agent_sync(ss["last_prompt"], ss, key, o)
    ELSE [ss |-> ss, calls |-> <<>>, outcome |-> Raise("")]

\* lines 199-233 on a Run click, after the sidebar, b being what
\* _build_user_input() did: the session and the record of this run
RunColumns(ss0, b, w, key, o) ==
    LET built == ~b.outcome.raised
        ss1 == IF built THEN Put(ss0, "last_prompt", b.outcome.value) ELSE ss0
        asked == "last_prompt" \in DOMAIN ss1
        d == Dispatch(ss1, key, o)
        ss2 == IF asked /\ ~d.outcome.raised
               THEN Put(d.ss, "last_output", d.outcome.value)
               ELSE d.ss
    IN  [ss |-> ss2,
         run |-> [button |-> "run",
                  fmt |-> w.fmt,
                  urls_raw |-> Val(w.urls_raw),
                  build_raised |-> ~built,
                  warnings |-> b.warnings,
                  errors |-> (IF built THEN <<>> ELSE <<"Build error">>)
                             \o (IF asked /\ d.outcome.raised THEN <<"Agent error">> ELSE <<>>),
                  prompt |-> IF built THEN Some(b.outcome.value) ELSE None,
                  dispatched |-> asked,
                  calls |-> d.calls,
                  output |-> IF asked /\ ~d.outcome.raised
                             THEN Some(d.outcome.value) ELSE None,
                  shown |-> Render(ss2, w.fmt)]]

---------------------------------------------------------------------------
(* Spec: the Streamlit session under Run clicks, Clear clicks, other widget
   changes and the key appearing in the environment *)

EntityTexts == {"", "Acme"}
TopicTexts == {"", "AI"}
EntitiesTexts == {<<>>, <<"Acme">>, <<"Acme", " ", " Beta">>}
CriteriaTexts == {<<>>, <<"Cost">>}
UrlFields == <<"https://a.example", " https://b.example", "https://c.example", "https://d.example">>
UrlText(n) == [i \in 1..n |-> UrlFields[((i - 1) % Len(UrlFields)) + 1]]
UrlTexts == {UrlText(n) : n \in 0..MaxUrls}
ReplyTexts == {"{\"rating\": 4}", "Acme leads."}

\* lines 28-114: the widgets a command shows; the others stay None (lines 51-55)
Widgets(cmd, fmt, urls_raw, entity, entities_raw, criteria_raw, topic, use_google) ==
    [cmd |-> cmd, fmt |-> fmt, tone |-> "analyst", length_hint |-> "standard",
     assumptions_ok |-> TRUE, urls_raw |-> Some(urls_raw),
     entity |-> IF cmd \in {"CI_section", "CI_summary", "CI_playbook", "CI_price_band"}
                THEN Some(entity) ELSE None,
     entities_raw |-> IF cmd \in {"CI_compare", "CI_landscape", "CI_matrix"}
                      THEN Some(entities_raw) ELSE None,
     criteria_raw |-> IF cmd = "CI_matrix" THEN Some(criteria_raw) ELSE None,
     topic |-> IF cmd = "CI_signals" THEN Some(topic) ELSE None,
     use_google |-> use_google]

\* every command with every input text, under the default constraints and no URL
ArgCases ==
    {Widgets(c, "markdown", <<>>, e, es, cr, t, g) :
        c \in Commands, e \in EntityTexts, es \in EntitiesTexts,
        cr \in CriteriaTexts, t \in TopicTexts, g \in BOOLEAN}

\* every format, and every URL text, under the default command (line 40:
\* CI_landscape)
ConstraintCases ==
    {Widgets("CI_landscape", f, <<>>, "", <<"Acme", " ", " Beta">>, <<>>, "", g) :
        f \in Formats, g \in BOOLEAN}
    \cup
    {Widgets("CI_landscape", "markdown", u, "", <<"Acme", " ", " Beta">>, <<>>, "", g) :
        u \in UrlTexts, g \in BOOLEAN}

WidgetCases == ArgCases \cup ConstraintCases

\* lines 99-111: the toggle is a widget only when the key is set
Shown(cases, key) == {w \in cases : key \/ ~w.use_google}

\* line 19, read by each run of the script
Key == environ.GOOGLE_API_KEY

\* the state after the page's first run: nothing clicked, the toggle unchecked
Init ==
    /\ environ \in [GOOGLE_API_KEY : BOOLEAN]
    /\ session_state = [k \in {"use_google"} |-> FALSE]
    /\ run = Blank("none")
    /\ args = <<>>
    /\ result = None
    /\ AdapterIdle

\* _build_user_input() on each widget case
BuildTable == [w \in WidgetCases |-> build_user_input(w)]

\* a click on Run Agent: lines 99-116 and 199-233
RunClick ==
    \E w \in Shown(WidgetCases, Key), o \in Oracles(ReplyTexts) :
        LET r == RunColumns(Sidebar(session_state, w, Key), BuildTable[w], w, Key, o)
        IN  /\ session_state' = r.ss
            /\ run' = r.run
            /\ UNCHANGED <<args, result, environ, adapter, selection>>

\* a click on Clear: lines 119-124 delete every key and rerun the script,
\* whose sidebar stores the toggle again; no output is left to show
ClearClick ==
    \E w \in Shown(ConstraintCases, Key) :
        /\ session_state' = Sidebar(<<>>, w, Key)
        /\ run' = [Blank("clear") EXCEPT !.fmt = w.fmt]
        /\ UNCHANGED <<args, result, environ, adapter, selection>>

\* any other widget change reruns the script with no button pressed
WidgetChange ==
    \E w \in Shown(ConstraintCases, Key) :
        /\ session_state' = Sidebar(session_state, w, Key)
        /\ run' = [Blank("none") EXCEPT !.fmt = w.fmt,
                                         !.shown = Render(session_state', w.fmt)]
        /\ UNCHANGED <<args, result, environ, adapter, selection>>

\* lines 16-19: load_dotenv() picks up a key added to .env since the last run
KeyAdded ==
    /\ ~environ.GOOGLE_API_KEY
    /\ environ' = [environ EXCEPT !.GOOGLE_API_KEY = TRUE]
    /\ UNCHANGED <<args, result, session_state, run, adapter, selection>>

Next == RunClick \/ ClearClick \/ WidgetChange \/ KeyAdded

Spec == Init /\ [][Next]_vars

---------------------------------------------------------------------------
(* What the claims about the pipeline speak of *)

Clicked == run.button = "run"

\* the entries of a URL text: its fields without the blanks around them, the
\* blank ones dropped
Entries(text) == SelectSeq([i \in 1..Len(text) |-> Strip(text[i])], LAMBDA x : x # "")

IsUrlHeading(line) == line \in {"- URLs to research:", "- URLs to research: "}

\* the lines an instruction lists under its URL heading, up to the blank line
\* before the body
UrlLines(text) ==
    IF \E i \in 1..Len(text) : IsUrlHeading(text[i])
    THEN LET i == CHOOSE k \in 1..Len(text) : IsUrlHeading(text[k])
             j == CHOOSE k \in (i + 1)..Len(text) :
                      text[k] = "" /\ \A m \in (i + 1)..(k - 1) : text[m] # ""
         IN  SubSeq(text, i + 1, j - 1)
    ELSE <<>>

\* C1: on a Run click whose build raises, no backend is invoked.
C1_NoBackendAfterBuildError ==
    (Clicked /\ run.build_raised) => run.calls = <<>>

\* C7: a URL text of more than 3 entries yields a truncation warning, and the
\* instruction built from it lists exactly its first 3 entries in order; no
\* dispatched instruction lists more than 3 URLs.
C7_UrlCap ==
    /\ (Clicked /\ Len(Entries(run.urls_raw)) > 3) =>
           /\ \E i \in 1..Len(run.warnings) : run.warnings[i] = TruncationWarning
           /\ run.prompt # None =>
                  UrlLines(Val(run.prompt)) =
                      [i \in 1..3 |-> "  - " \o Entries(run.urls_raw)[i]]
    /\ \A i \in 1..Len(run.calls) : Len(UrlLines(run.calls[i].prompt)) <= 3

C7_Witness ==
    /\ Clicked /\ Len(Entries(run.urls_raw)) > 3
    /\ run.prompt # None
    /\ UrlLines(Val(run.prompt)) =
           <<"  - https://a.example", "  - https://b.example", "  - https://c.example">>
    /\ Len(run.calls) = 1 /\ run.calls[1].prompt = Val(run.prompt)

\* C8: for a request the guardrail agent judges not to be a
\* competitive-intelligence request no backend generates a reply, whichever
\* backend is selected.
C8_GuardrailBlocksGeneration ==
    \A i \in 1..Len(run.calls) : ~run.calls[i].is_ci => ~run.calls[i].generated

\* C9: every dispatch invokes exactly one backend: Google if and only if the
\* toggle is on and the key is present, the agent runner otherwise; Google is
\* never invoked without the key, and a failing backend is not followed by
\* the other one.
C9_OneBackend ==
    (Clicked /\ run.dispatched) =>
        /\ Len(run.calls) = 1
        /\ run.calls[1].backend \in {"google", "agents"}
        /\ run.calls[1].backend = "google"
               <=> (session_state["use_google"] /\ environ.GOOGLE_API_KEY)
        /\ run.calls[1].backend = "google" => environ.GOOGLE_API_KEY

C9_Witness ==
    /\ Clicked /\ run.dispatched
    /\ run.errors = <<"Agent error">>
    /\ Len(run.calls) = 1 /\ run.calls[1].backend = "google"

\* the session holds an output
Stored == "last_output" \in DOMAIN session_state

\* of the reply texts, the one that is a JSON document
ValidJson(text) == text = "{\"rating\": 4}"

\* the latest run of the script read the format json and the stored output
\* does not parse
JsonRequestedUnparsable ==
    Stored /\ run.fmt = "json" /\ ~ValidJson(session_state["last_output"])

\* C11: when the format is json and the stored output is not valid JSON, the
\* run of the script shows the warning and the stored text raw, so the output
\* is displayed; and showing never alters the stored output: it is replaced
\* only by the output a Run click's backend call returns, and removed only by
\* Clear.
C11_JsonFallback ==
    /\ [](JsonRequestedUnparsable =>
            /\ run.shown # None
            /\ Val(run.shown) = [text |-> session_state["last_output"],
                                 widget |-> "code", warning |-> TRUE])
    /\ [][(Stored /\ run' # run /\ run'.button # "clear") =>
            /\ "last_output" \in DOMAIN session_state'
            /\ session_state'["last_output"] =
                   (IF run'.output # None THEN Val(run'.output)
                    ELSE session_state["last_output"])]_vars

C11_Witness ==
    /\ Clicked /\ run.fmt = "json"
    /\ run.output = Some("Acme leads.")
    /\ session_state["last_output"] = "Acme leads."
    /\ run.shown = Some([text |-> "Acme leads.", widget |-> "code", warning |-> TRUE])

\* C13: any agent output displayed after a Run click was returned by the
\* backend call that Run made, for the prompt that Run compiled; after a Run
\* whose build or backend call fails no output of an earlier Run is displayed.
C13_NothingCarriedOver ==
    (Clicked /\ run.shown # None) =>
        /\ run.output # None
        /\ Val(run.shown).text = Val(run.output)
        /\ run.prompt # None
        /\ Len(run.calls) = 1
        /\ run.calls[1].prompt = Val(run.prompt)

---------------------------------------------------------------------------
(* google_adapter.generate_from_prompt: the choice of the model *)

\* A model name is the sequence of its tokens, "gemini-1.5" being
\* <<"gemini", "-", "1.5">>; `tok in nm` looks for the token.
NameHas(nm, tok) == \E i \in 1..Len(nm) : nm[i] = tok

\* line 92, and the default of line 88
FallbackModel == <<"gemini", "-", "1.5">>

\* str(m) of a descriptor that carries no name
ReprName == <<"Model()">>

\* score, lines 66-74
score(nm) ==
    (IF NameHas(nm, "gemini") THEN 10 ELSE 0)
    + (IF NameHas(nm, "1.5") THEN 5 ELSE 0)
    + (IF NameHas(nm, "flash") THEN 2 ELSE 0)

\* line 61: the method names that make a model a candidate
Supports(method_names) ==
    \/ \E x \in {"generateContent", "generate_content", "generateContentV1"} :
           \E i \in 1..Len(method_names) : method_names[i] = x
    \/ \E i \in 1..Len(method_names) : method_names[i] \in {"generateContent", "chat", "generate"}

\* `a or b` on two optional names
OrName(a, b) == IF TruthyList(a) THEN a ELSE b

\* lines 47-62: the (name, method_names) pairs of the models that qualify; a
\* descriptor goes by its name, else its model attribute, else str(m)
Candidates(available) ==
    LET pairs == [i \in 1..Len(available) |->
                    [name |-> Val(OrName(available[i].name,
                                         OrName(available[i].model, Some(ReprName)))),
                     method_names |-> available[i].methods]]
    IN  SelectSeq(pairs, LAMBDA c : Supports(c.method_names))

RECURSIVE InsertByScore(_, _)
\* x put into a list sorted by falling score, behind its equals
InsertByScore(sorted, x) ==
    IF sorted = <<>> THEN <<x>>
    ELSE IF score(Head(sorted).name) >= score(x.name)
    THEN <<Head(sorted)>> \o InsertByScore(Tail(sorted), x)
    ELSE <<x>> \o sorted

RECURSIVE SortedPrefix(_, _)
SortedPrefix(candidates, n) ==
    IF n = 0 THEN <<>>
    ELSE InsertByScore(SortedPrefix(candidates, n - 1), candidates[n])

\* no sort at all
Unsorted(candidates) == candidates

\* line 76: candidates.sort(key=score, reverse=True), a stable sort
SortByScore(candidates) == SortedPrefix(candidates, Len(candidates))

\* the except branch, lines 83-88: os.getenv("GOOGLE_MODEL", "gemini-1.5")
ListingFailed(model_env) ==
    [model |-> IF model_env = None THEN Some(FallbackModel) ELSE model_env,
     via |-> "except"]

\* lines 45-88: discovery. A listing raises, or is a list, or is an iterator
\* (which is truthy and cannot be indexed: available[0] raises TypeError).
Discover(model_env, listing) ==
    IF listing.kind = "raises" THEN ListingFailed(model_env)
    ELSE LET available == listing.models
             candidates == Candidates(available)
         IN  IF candidates # <<>>
             THEN [model |-> Some(SortByScore(candidates)[1].name), via |-> "candidates"]
             ELSE IF listing.kind = "iterator" THEN ListingFailed(model_env)
             ELSE IF available # <<>>
             THEN [model |-> OrName(available[1].name, available[1].model), via |-> "first"]
             ELSE [model |-> model_env, via |-> "none"]

\* generate_from_prompt, lines 26-92, up to the model it generates with
generate_from_prompt(a) ==
    IF ~a.api_key
    THEN [raised |-> TRUE, listed |-> FALSE, via |-> "none", model |-> <<>>]
    ELSE LET model_env == a.GOOGLE_MODEL
             found == IF ~TruthyList(model_env)
                      THEN Discover(model_env, a.listing)
                      ELSE [model |-> model_env, via |-> "env"]
         IN  [raised |-> FALSE,
              listed |-> ~TruthyList(model_env),
              via |-> found.via,
              model |-> IF ~TruthyList(found.model) THEN FallbackModel ELSE Val(found.model)]

---------------------------------------------------------------------------
(* SpecGoogle: generate_from_prompt over bounded environments and listings *)

MaxModels == 3

ModelPool ==
    {[name |-> Some(<<"models/", "gemini", "-", "1.5", "-", "flash">>), model |-> None,
      methods |-> <<"generateContent", "countTokens">>],
     [name |-> Some(<<"models/", "gemini", "-", "pro">>), model |-> None,
      methods |-> <<"generateContent">>],
     [name |-> Some(<<"models/", "chat-bison">>), model |-> None, methods |-> <<"chat">>],
     [name |-> Some(<<"models/", "gemini", "-", "embedding">>), model |-> None,
      methods |-> <<"embedContent">>],
     [name |-> None, model |-> Some(<<"tuned/", "flash">>), methods |-> <<"generate">>],
     [name |-> Some(<<>>), model |-> Some(<<"tuned/", "embedding">>), methods |-> <<>>],
     [name |-> None, model |-> None, methods |-> <<"generate_content">>],
     [name |-> None, model |-> None, methods |-> <<>>]}

Listings ==
    {[kind |-> "raises", models |-> <<>>]}
    \cup {[kind |-> k, models |-> ms] :
            k \in {"list", "iterator"}, ms \in SeqsUpTo(ModelPool, MaxModels)}

InitGoogle ==
    /\ adapter \in [api_key : BOOLEAN,
                    GOOGLE_MODEL : {None, Some(<<>>), Some(<<"gemini", "-", "pro">>)},
                    listing : Listings]
    /\ selection = None
    /\ args = <<>>
    /\ result = None
    /\ AppIdle

Generate ==
    /\ selection = None
    /\ selection' = Some(generate_from_prompt(adapter))
    /\ UNCHANGED <<args, result, environ, session_state, run, adapter>>

NextGoogle == Generate

SpecGoogle == InitGoogle /\ [][NextGoogle]_vars

---------------------------------------------------------------------------
(* What the claim about the model choice speaks of *)

Selected == selection # None /\ ~Val(selection).raised

Chosen == Val(selection).model

Configured == adapter.GOOGLE_MODEL # None /\ Val(adapter.GOOGLE_MODEL) # <<>>

\* a listed model supports content generation when it names one of the
\* generation methods generateContent, generate_content, generateContentV1,
\* chat, generate
Generative(m) ==
    \E i \in 1..Len(m.methods) :
        m.methods[i] \in {"generateContent", "generate_content", "generateContentV1",
                          "chat", "generate"}

Named(m) == m.name # None /\ Val(m.name) # <<>>

Aliased(m) == m.model # None /\ Val(m.model) # <<>>

\* what a listed model goes by: its name, else its model attribute, else its
\* string form
NameOf(m) ==
    IF Named(m) THEN Val(m.name) ELSE IF Aliased(m) THEN Val(m.model) ELSE ReprName

Points(nm) ==
    (IF \E i \in 1..Len(nm) : nm[i] = "gemini" THEN 10 ELSE 0)
    + (IF \E i \in 1..Len(nm) : nm[i] = "1.5" THEN 5 ELSE 0)
    + (IF \E i \in 1..Len(nm) : nm[i] = "flash" THEN 2 ELSE 0)

\* the listed models when the listing succeeds
Listed == IF adapter.listing.kind = "raises" THEN <<>> ELSE adapter.listing.models

GenerativeListed == {i \in 1..Len(Listed) : Generative(Listed[i])}

\* the chosen model is a listed generative model of maximal score
ChosenIsBestGenerative ==
    \E i \in GenerativeListed :
        /\ Chosen = NameOf(Listed[i])
        /\ \A j \in GenerativeListed : Points(NameOf(Listed[j])) <= Points(Chosen)

\* the listing is a list whose first model has a name or a model attribute
FirstNamed ==
    /\ adapter.listing.kind = "list"
    /\ Listed # <<>>
    /\ Named(Listed[1]) \/ Aliased(Listed[1])

============================================================================
